---- MODULE Spec2Model ----
(***************************************************************************)
(* DDPG agent (ddpg_agent.py and ddpg_agent_updated.py): replay buffer,    *)
(* Ornstein-Uhlenbeck noise, and the agent controller (act, step, learn).  *)
(* Real numbers are fixed-point integers with ONE standing for 1.0.        *)
(* The two source files are the two values of the variable `variant`.      *)
(***************************************************************************)
EXTENDS Integers, Sequences, FiniteSets, TLC

(* ------------------------------ bounds --------------------------------- *)
\* fixed-point unit: the integer that stands for 1.0
ONE == 1000
\* num_agents ranges over 1..MaxAgents
MaxAgents == 2
\* number of step and sample calls made by the environment loop
MaxCalls == 3
\* number of act and reset calls made by the environment loop
MaxActs == 3
\* learn_rate (learning phases per trigger) ranges over 1..MaxUpdates
MaxUpdates == 2
\* number of parameters of each network
NumParams == 1
\* replay buffer capacity (BUFFER_SIZE = int(1e5) in the source, scaled down)
BUFFER_SIZE == 3
\* minibatch size (BATCH_SIZE = 512 / 256 in the source, scaled down)
BATCH_SIZE == 2

(* ------------------------------ inputs --------------------------------- *)
\* the time_step values the environment loop passes to step
TimeSteps == 0..2
\* the time_update values an agent is built with
Cadences == {1, 2}

(* --------------------------- program constants ------------------------- *)
\* TAU = 1e-3, in units of 1/ONE
TAU == 1
\* GAMMA = 0.99
GAMMA == 990

ORIG == "ddpg_agent"
UPDATED == "ddpg_agent_updated"
Variants == {ORIG, UPDATED}

VARIABLES
  variant,        \* which source file the agent is built from
  num_agents,     \* Agent.num_agents
  learning_rate,  \* Agent.learning_rate: learning phases per trigger
  time_update,    \* Agent.time_update: cadence of learning triggers
  batch_size,     \* ReplayBuffer.batch_size
  buffer_size,    \* maxlen of ReplayBuffer.memory
  gamma,          \* Agent.gamma: discount factor
  tau,            \* Agent.tau: the soft-update rate given to the constructor
  mu, theta, sigma,           \* OUNoise parameters
  eps, eps_min, eps_decay,    \* exploration-rate schedule (ddpg_agent.py only)
  memory,         \* ReplayBuffer.memory, oldest first
  actor_local, actor_target, critic_local, critic_target,  \* parameter vectors
  training,       \* actor_local.training: the mode flag of the local actor
  noise,          \* the states of the OUNoise processes
  pc,             \* position inside Agent.step ("idle" between calls)
  experiences,    \* the batch held by the running step or learn
  call,           \* record of the running (or last) step call
  lastSample,     \* outcome of the last direct ReplayBuffer.sample call
  lastAct,        \* outcome of the last Agent.act call
  grads,          \* the losses accumulated in the .grad of each local network
  trace,          \* what the critic update of the running learn call computed
  lastSoft,       \* arguments of the last direct Agent.soft_update call
  inserted,       \* every transition handed to the buffer so far, in order
  calls           \* number of calls made so far

cfgVars == <<variant, num_agents, learning_rate, time_update, batch_size,
             buffer_size, gamma, tau, mu, theta, sigma, eps_min, eps_decay>>
netVars == <<actor_local, actor_target, critic_local, critic_target>>
learnVars == <<grads, trace, lastSoft>>
vars == <<cfgVars, netVars, learnVars, training, eps, memory, noise, pc,
          experiences, call, lastSample, lastAct, inserted, calls>>

(* ------------------------------ helpers -------------------------------- *)
Range(s) == {s[i] : i \in DOMAIN s}

Max(a, b) == IF a >= b THEN a ELSE b

Min(a, b) == IF a <= b THEN a ELSE b

\* the last n elements of s (all of s when it is shorter)
LastN(s, n) == SubSeq(s, Max(1, Len(s) - n + 1), Len(s))

(* --------------------------- replay buffer ----------------------------- *)
\* namedtuple("Experience", state action reward next_state done)
Experience(s, a, r, n, d) ==
  [state |-> s, action |-> a, reward |-> r, next_state |-> n, done |-> d]

\* the k-th transition the environment hands to step: observation k, the
\* observation that follows it, and an action, a reward and a done flag that
\* vary with k
Transition(k) ==
  Experience(k, IF k % 2 = 0 THEN ONE ELSE -ONE, (k % 3) * ONE - ONE, k + 1,
             k % 2 = 0)

\* a list in place of the bounded deque: nothing ever leaves
deque_append_unbounded(q, e, maxlen) == Append(q, e)

\* deque(maxlen=buffer_size).append(e): the oldest element leaves when full
deque_append(q, e, maxlen) ==
  IF maxlen = 0 THEN q
  ELSE IF Len(q) >= maxlen THEN Append(Tail(q), e)
  ELSE Append(q, e)

\* ReplayBuffer.add of ddpg_agent_updated.py: one experience per call
ReplayBuffer_add_one(q, state, action, reward, next_state, done, maxlen) ==
  deque_append(q, Experience(state, action, reward, next_state, done), maxlen)

RECURSIVE add_loop(_, _, _, _, _, _, _, _, _)
add_loop(q, states, actions, rewards, next_states, dones, i, n, maxlen) ==
  IF i > n THEN q
  ELSE add_loop(ReplayBuffer_add_one(q, states[i], actions[i], rewards[i],
                                     next_states[i], dones[i], maxlen),
                states, actions, rewards, next_states, dones, i + 1, n, maxlen)

\* the loop stops one agent short
ReplayBuffer_add_all_but_last(q, states, actions, rewards, next_states, dones, n, maxlen) ==
  add_loop(q, states, actions, rewards, next_states, dones, 1, n - 1, maxlen)

\* ReplayBuffer.add of ddpg_agent.py: loops over the agents itself
ReplayBuffer_add_all(q, states, actions, rewards, next_states, dones, n, maxlen) ==
  add_loop(q, states, actions, rewards, next_states, dones, 1, n, maxlen)

\* a loop that records the last agent first
step_add_each_reversed(q, states, actions, rewards, next_states, dones, n, maxlen) ==
  add_loop(q, [i \in 1..n |-> states[n + 1 - i]], [i \in 1..n |-> actions[n + 1 - i]],
           [i \in 1..n |-> rewards[n + 1 - i]], [i \in 1..n |-> next_states[n + 1 - i]],
           [i \in 1..n |-> dones[n + 1 - i]], 1, n, maxlen)

\* the loop of Agent.step in ddpg_agent_updated.py: one add call per agent
step_add_each(q, states, actions, rewards, next_states, dones, n, maxlen) ==
  add_loop(q, states, actions, rewards, next_states, dones, 1, n, maxlen)

\* random.choices in place of random.sample: positions may repeat
random_sample_with_replacement(n, k) ==
  IF k > n THEN {} ELSE [1..k -> 1..n]

\* a sample that shrinks to the population instead of raising
random_sample_truncating(n, k) ==
  {s \in [1..Min(n, k) -> 1..n] : \A i, j \in 1..Min(n, k) : i # j => s[i] # s[j]}

\* random.sample(population of size n, k): the orders of k distinct positions;
\* empty when k > n or k < 0 (ValueError)
random_sample(n, k) ==
  IF k > n \/ k < 0 THEN {}
  ELSE {s \in [1..k -> 1..n] : \A i, j \in 1..k : i # j => s[i] # s[j]}

\* the five stacked arrays ReplayBuffer.sample builds from the drawn experiences
ReplayBuffer_sample(q, idx) ==
  LET es == [j \in 1..Len(idx) |-> q[idx[j]]]
  IN [states      |-> [j \in 1..Len(es) |-> es[j].state],
      actions     |-> [j \in 1..Len(es) |-> es[j].action],
      rewards     |-> [j \in 1..Len(es) |-> es[j].reward],
      next_states |-> [j \in 1..Len(es) |-> es[j].next_state],
      dones       |-> [j \in 1..Len(es) |-> IF es[j].done THEN 1 ELSE 0]]

\* again: the batch holds a position the batch before it, drawn from the
\* same buffer by the sample call just before, held too
NoBatch == [raised |-> FALSE, idx |-> <<>>, size |-> 0, again |-> FALSE,
            batch |-> ReplayBuffer_sample(<<>>, <<>>)]

\* a sample that pops as many experiences as it draws off the buffer
memory_after_sample_popping(q, idx) == SubSeq(q, 1, Len(q) - Len(idx))

\* the buffer ReplayBuffer.sample leaves behind: random.sample and the five
\* list comprehensions only read self.memory
memory_after_sample(q, idx) == q

\* ReplayBuffer.sample raises: random.sample does, or np.vstack is handed the
\* empty list of a batch of size 0
SampleRaises(n, k) == random_sample(n, k) = {} \/ k = 0

\* the outcome of one ReplayBuffer.sample call drawing positions idx
SampleOutcome(q, idx) ==
  [raised |-> FALSE, idx |-> idx, size |-> Len(q), again |-> FALSE,
   batch |-> ReplayBuffer_sample(q, idx)]

SampleRaised(q) == [NoBatch EXCEPT !.raised = TRUE, !.size = Len(q)]

(* ------------------------------ networks ------------------------------- *)
\* values a parameter can take
ParamValues == {0, ONE}

\* parameter vectors of a network
ParamVecs == [1..NumParams -> ParamValues]

\* the parameters the four freshly built networks can start with: the target
\* built equal to its local network, or built different from it
InitialNets ==
  LET lo == [k \in 1..NumParams |-> 0]
      hi == [k \in 1..NumParams |-> ONE]
  IN { [al |-> lo, at |-> lo, cl |-> hi, ct |-> hi],
       [al |-> lo, at |-> hi, cl |-> hi, ct |-> lo] }

\* Agent.hard_update: the target takes the local parameters
hard_update(target, local) == [k \in DOMAIN target |-> local[k]]

\* a blend with the two networks in each other's place
soft_update_swapped(local, target, t) ==
  [k \in DOMAIN target |-> (t * target[k] + (ONE - t) * local[k]) \div ONE]

\* Agent.soft_update: target <- tau*local + (1 - tau)*target, elementwise
soft_update(local, target, t) ==
  [k \in DOMAIN target |-> (t * local[k] + (ONE - t) * target[k]) \div ONE]

\* the parameters optimizer.step() can leave in a local network: unchanged
\* (zero gradient) or every parameter moved to the other value
OptimizerStep(params) ==
  {params, [k \in DOMAIN params |-> ONE - params[k]]}

\* the losses accumulated in the .grad of the two local networks: none yet
NoGrads == [critic_local |-> {}, actor_local |-> {}]

\* an update that never clears: what earlier backward passes left stays
zero_grad_missing(g) == g

\* optimizer.zero_grad(): the gradients of the optimizer's parameters are cleared
zero_grad(g) == {}

\* loss.backward(): the gradient of the loss is added to what .grad holds
backward(g, loss) == g \cup {loss}

\* the values critic_target returns for a next state and the target action
QValues == {-ONE, 2 * ONE}

\* what critic_target returns for a batch of n: one of the values, on every entry
QDraws(n) == { [j \in 1..n |-> v] : v \in QValues }

\* a target that bootstraps from every next state, terminal or not
TD_target_ignoring_done(reward, g, q_next, done) == reward + (g * q_next) \div ONE

\* Q_targets = rewards + (gamma * Q_targets_next * (1 - dones)), one entry
TD_target(reward, g, q_next, done) == reward + (g * q_next * (1 - done)) \div ONE

\* what the critic update of learn has computed: nothing outside it
NoTrace == [Q_targets_next |-> <<>>, Q_targets |-> <<>>, critic_step |-> {}]

\* no direct soft_update call made yet
NoSoft == [made |-> FALSE, tau |-> 0, local0 |-> <<>>, target0 |-> <<>>]

(* ------------------------------- noise --------------------------------- *)
\* dimension of an action vector
action_size == 1

\* defaults of the Agent constructor: theta=0.15, sigma=0.2, mu=0.
THETA == 150
SIGMA == 200
MU == 0

\* the draws random.random() can return, in [0, 1)
XiValues == {0, ONE \div 2}

\* the draws n processes make in one act call: one value on the coordinates
\* of odd process+coordinate index, one on the others
XiDraws(n) ==
  { [p \in 1..n |-> [c \in 1..action_size |->
       IF (p + c) % 2 = 0 THEN v ELSE w]] : v, w \in XiValues }

\* a reset to the origin, whatever the mean
OUNoise_reset_to_zero(m, size) == [c \in 1..size |-> 0]

\* OUNoise.__init__ / OUNoise.reset: state = copy(mu * ones(size))
OUNoise_reset(m, size) == [c \in 1..size |-> m]

\* OUNoise.sample: state <- x + theta*(mu - x) + sigma*xi, returned as the sample
OUNoise_sample(x, m, th, sg, xi) ==
  [c \in DOMAIN x |-> x[c] + (th * (m - x[c])) \div ONE + (sg * xi[c]) \div ONE]

\* number of OUNoise objects the agent holds
NumProcesses(v, n) == IF v = ORIG THEN n ELSE 1

\* a clip that forgets the lower bound
np_clip_upper_only(x, lo, hi) == Min(x, hi)

\* np.clip(x, lo, hi) on one coordinate
np_clip(x, lo, hi) == Max(lo, Min(x, hi))

RECURSIVE SumSamples(_, _, _)
\* sum over processes 1..p of coordinate c of their samples
SumSamples(samples, p, c) ==
  IF p = 0 THEN 0 ELSE samples[p][c] + SumSamples(samples, p - 1, c)

\* Agent.act of ddpg_agent.py: every process's sample is added to the whole
\* action array (for i in range(num_agents): action += noise[i].sample())
Agent_act_orig(raw, samples, add_noise) ==
  [a \in DOMAIN raw |-> [c \in DOMAIN raw[a] |->
     np_clip(raw[a][c] + (IF add_noise THEN SumSamples(samples, Len(samples), c) ELSE 0),
             -ONE, ONE)]]

\* Agent.act of ddpg_agent_updated.py: the one shared sample is added to every row
Agent_act_updated(raw, samples, add_noise) ==
  [a \in DOMAIN raw |-> [c \in DOMAIN raw[a] |->
     np_clip(raw[a][c] + (IF add_noise THEN samples[1][c] ELSE 0), -ONE, ONE)]]

Agent_act(v, raw, samples, add_noise) ==
  IF v = ORIG THEN Agent_act_orig(raw, samples, add_noise)
  ELSE Agent_act_updated(raw, samples, add_noise)

\* values actor_local's forward pass can return for one coordinate
ActorOut == {-2 * ONE, 0, ONE}

\* the arrays actor_local can return for n agents: one value on the
\* coordinates of odd agent+coordinate index, one on the others
ActorOutputs(n) ==
  { [a \in 1..n |-> [c \in 1..action_size |->
       IF (a + c) % 2 = 0 THEN v ELSE w]] : v, w \in ActorOut }

NoAct == [explore |-> FALSE, raw |-> <<>>, noise0 |-> <<>>, xi |-> <<>>,
          samples |-> <<>>, action |-> <<>>, made |-> FALSE, reset |-> FALSE]

(* --------------------------- exploration rate -------------------------- *)
\* EPS_MAX = 1.0, EPS_MIN = 0.1, EPS_DECAY = 0 (ddpg_agent.py)
EPS_MAX == 1000
EPS_MIN == 100
EPS_DECAY == 0

\* eps_decay values an agent is built with
EpsDecays == {EPS_DECAY, ONE \div 2}

\* the last statement of learn in ddpg_agent.py; the other file has no eps
decay_eps(v, e, decay, emin) == IF v = ORIG THEN Max(e - decay, emin) ELSE e

(* --------------------------- construction ------------------------------ *)
NoCall == [time_step |-> 0, xs |-> <<>>, ins0 |-> 0, phases |-> 0,
           sizes |-> <<>>, raised |-> FALSE, returned |-> FALSE]

\* Agent.__init__: v is the source file, al at cl ct the parameters the four
\* networks are built with. Only ddpg_agent.py ends with the two hard updates
\* and has the eps schedule; only ddpg_agent_updated.py takes batch_size and
\* buffer_size (ddpg_agent.py passes the module constants to the buffer).
\* No argument is checked; the one constructor call that raises is
\* deque(maxlen=buffer_size) with a negative buffer_size, which leaves no
\* agent (pc = "rejected", the other variables hold the arguments).
Agent_init(v, n, lr, tu, bs, cap, g, t, m, th, sg, emax, emin, edecay, al, at, cl, ct) ==
  /\ variant = v
  /\ num_agents = n
  /\ learning_rate = lr
  /\ time_update = tu
  /\ batch_size = (IF v = ORIG THEN BATCH_SIZE ELSE bs)
  /\ buffer_size = (IF v = ORIG THEN BUFFER_SIZE ELSE cap)
  /\ gamma = g
  /\ tau = t
  /\ mu = m
  /\ theta = th
  /\ sigma = sg
  /\ eps = (IF v = ORIG THEN emax ELSE 0)
  /\ eps_min = (IF v = ORIG THEN emin ELSE 0)
  /\ eps_decay = (IF v = ORIG THEN edecay ELSE 0)
  /\ actor_local = al
  /\ training = TRUE
  /\ critic_local = cl
  /\ actor_target = (IF v = ORIG THEN hard_update(at, al) ELSE at)
  /\ critic_target = (IF v = ORIG THEN hard_update(ct, cl) ELSE ct)
  /\ noise = [p \in 1..NumProcesses(v, n) |-> OUNoise_reset(m, action_size)]
  /\ memory = <<>>
  /\ pc = (IF v = UPDATED /\ cap < 0 THEN "rejected" ELSE "idle")
  /\ experiences = NoBatch
  /\ call = NoCall
  /\ lastSample = NoBatch
  /\ lastAct = NoAct
  /\ grads = NoGrads
  /\ trace = NoTrace
  /\ lastSoft = NoSoft
  /\ inserted = <<>>
  /\ calls = 0

\* the batch_size and buffer_size an agent is built with: the defaults, or
\* one less of each (only ddpg_agent_updated.py reads them)
BufferConfigs ==
  { [bs |-> BATCH_SIZE, cap |-> BUFFER_SIZE],
    [bs |-> BATCH_SIZE - 1, cap |-> BUFFER_SIZE - 1] }

Init ==
  \E v \in Variants, n \in 1..MaxAgents, lr \in 1..MaxUpdates, tu \in Cadences,
     edecay \in EpsDecays, w \in InitialNets, b \in BufferConfigs :
    Agent_init(v, n, lr, tu, b.bs, b.cap, GAMMA, TAU, MU, THETA, SIGMA,
               EPS_MAX, EPS_MIN, edecay, w.al, w.at, w.cl, w.ct)

(* ------------------------------ Agent.step ----------------------------- *)
\* the buffer size step compares with: BATCH_SIZE in ddpg_agent.py,
\* self.batch_size in ddpg_agent_updated.py
LearnThreshold == IF variant = ORIG THEN BATCH_SIZE ELSE batch_size

\* a gate that lets remainder 1 through
NotTimeToLearn_off_by_one(time_step, tu) == time_step % tu > 1

\* if time_step % self.time_update > 0: return
NotTimeToLearn(time_step, tu) == time_step % tu > 0

\* a test that accepts a buffer holding exactly one batch
EnoughSamples_inclusive(size, threshold) == size >= threshold

\* a test that is always passed
EnoughSamples_always(size, threshold) == TRUE

\* if len(self.memory) > batch size
EnoughSamples(size, threshold) == size > threshold

\* step, first statement: the transitions of all agents go into the buffer
StepAdd(t) ==
  LET xs          == [i \in 1..num_agents |-> Transition(Len(inserted) + i)]
      states      == [i \in 1..num_agents |-> xs[i].state]
      actions     == [i \in 1..num_agents |-> xs[i].action]
      rewards     == [i \in 1..num_agents |-> xs[i].reward]
      next_states == [i \in 1..num_agents |-> xs[i].next_state]
      dones       == [i \in 1..num_agents |-> xs[i].done]
  IN
  /\ pc = "idle"
  /\ calls < MaxCalls
  /\ calls' = calls + 1
  /\ memory' = IF variant = ORIG
               THEN ReplayBuffer_add_all(memory, states, actions, rewards,
                                         next_states, dones, num_agents, buffer_size)
               ELSE step_add_each(memory, states, actions, rewards,
                                  next_states, dones, num_agents, buffer_size)
  /\ inserted' = inserted \o xs
  /\ call' = [NoCall EXCEPT !.time_step = t, !.xs = xs, !.ins0 = Len(inserted)]
  /\ lastSample' = NoBatch
  /\ pc' = "gate"
  /\ UNCHANGED <<cfgVars, training, netVars, learnVars, eps, noise, experiences, lastAct>>

\* if time_step % time_update > 0: return; if len(memory) > batch size: loop
StepGate ==
  /\ pc = "gate"
  /\ IF NotTimeToLearn(call.time_step, time_update)
     THEN pc' = "idle" /\ call' = [call EXCEPT !.returned = TRUE]
     ELSE IF EnoughSamples(Len(memory), LearnThreshold)
          THEN pc' = "loop" /\ call' = call
          ELSE pc' = "idle" /\ call' = [call EXCEPT !.returned = TRUE]
  /\ UNCHANGED <<cfgVars, training, netVars, learnVars, eps, memory, noise, experiences,
                 lastSample, lastAct, inserted, calls>>

\* for i in range(learning_rate): experiences = memory.sample()
StepSample ==
  /\ pc = "loop"
  /\ call.phases < learning_rate
  /\ IF SampleRaises(Len(memory), batch_size)
     THEN /\ experiences' = SampleRaised(memory)
          /\ memory' = memory
          /\ call' = [call EXCEPT !.raised = TRUE]
          /\ pc' = "idle"
     ELSE \E idx \in random_sample(Len(memory), batch_size) :
          /\ experiences' = SampleOutcome(memory, idx)
          /\ memory' = memory_after_sample(memory, idx)
          /\ call' = [call EXCEPT !.sizes = Append(@, Len(memory))]
          /\ pc' = "learn_critic"
  /\ UNCHANGED <<cfgVars, training, netVars, learnVars, eps, noise, lastSample, lastAct,
                 inserted, calls>>

\* the loop is exhausted: step returns
StepReturn ==
  /\ pc = "loop"
  /\ call.phases >= learning_rate
  /\ pc' = "idle"
  /\ call' = [call EXCEPT !.returned = TRUE]
  /\ UNCHANGED <<cfgVars, training, netVars, learnVars, eps, memory, noise, experiences,
                 lastSample, lastAct, inserted, calls>>

(* ------------------------------ Agent.learn ---------------------------- *)
\* critic update: the TD targets from the target networks, then
\* critic_optimizer.zero_grad(), critic_loss.backward(), critic_optimizer.step()
LearnCritic ==
  LET b == experiences.batch
      n == Len(b.rewards)
      g == backward(zero_grad(grads.critic_local), "critic_loss")
  IN
  /\ pc = "learn_critic"
  /\ \E q \in QDraws(n) :
       trace' = [Q_targets_next |-> q,
                 Q_targets |-> [j \in 1..n |->
                                 TD_target(b.rewards[j], gamma, q[j], b.dones[j])],
                 critic_step |-> g]
  /\ grads' = [grads EXCEPT !.critic_local = g]
  /\ critic_local' \in OptimizerStep(critic_local)
  /\ pc' = "learn_actor"
  /\ UNCHANGED <<cfgVars, training, actor_local, actor_target, critic_target, lastSoft,
                 eps, memory, noise, experiences, call, lastSample, lastAct,
                 inserted, calls>>

\* an actor update whose optimizer holds the parameters of actor_target
LearnActor_training_target ==
  /\ pc = "learn_actor"
  /\ actor_target' \in OptimizerStep(actor_target)
  /\ pc' = "learn_targets"
  /\ trace' = NoTrace
  /\ UNCHANGED <<cfgVars, training, actor_local, critic_local, critic_target, grads,
                 lastSoft, eps, memory, noise, experiences, call, lastSample, lastAct,
                 inserted, calls>>

\* actor update: actor_optimizer.zero_grad(), actor_loss.backward() (the loss
\* goes through critic_local, whose .grad receives it too),
\* actor_optimizer.step()
LearnActor ==
  /\ pc = "learn_actor"
  /\ grads' = [critic_local |-> backward(grads.critic_local, "actor_loss"),
               actor_local |-> backward(zero_grad(grads.actor_local), "actor_loss")]
  /\ actor_local' \in OptimizerStep(actor_local)
  /\ trace' = NoTrace
  /\ pc' = "learn_targets"
  /\ UNCHANGED <<cfgVars, training, actor_target, critic_local, critic_target,
                 lastSoft, eps, memory, noise, experiences, call, lastSample,
                 lastAct, inserted, calls>>

\* the two soft updates (with the module constant TAU) and the eps decay
LearnTargets ==
  /\ pc = "learn_targets"
  /\ critic_target' = soft_update(critic_local, critic_target, TAU)
  /\ actor_target' = soft_update(actor_local, actor_target, TAU)
  /\ eps' = decay_eps(variant, eps, eps_decay, eps_min)
  /\ call' = [call EXCEPT !.phases = @ + 1]
  /\ experiences' = NoBatch
  /\ pc' = "loop"
  /\ UNCHANGED <<cfgVars, training, actor_local, critic_local, learnVars, memory,
                 noise, lastSample, lastAct, inserted, calls>>

(* ------------------------- ReplayBuffer.sample ------------------------- *)
\* memory.sample() called directly, whatever the buffer holds
Sample ==
  /\ pc = "idle"
  /\ calls < MaxCalls
  /\ calls' = calls + 1
  /\ IF SampleRaises(Len(memory), batch_size)
     THEN /\ lastSample' = SampleRaised(memory)
          /\ memory' = memory
     ELSE \E idx \in random_sample(Len(memory), batch_size) :
          /\ lastSample' = [SampleOutcome(memory, idx) EXCEPT
                             !.again = Range(idx) \cap Range(lastSample.idx) # {}]
          /\ memory' = memory_after_sample(memory, idx)
  /\ UNCHANGED <<cfgVars, training, netVars, learnVars, eps, noise, pc, experiences, call,
                 lastAct, inserted>>

(* ------------------------------ Agent.act ------------------------------ *)
\* self.actor_local.eval(): the module leaves training mode
Module_eval(t) == FALSE

\* an act that returns without switching the actor back
Module_train_missing(t) == t

\* self.actor_local.train(): the module is in training mode
Module_train(t) == TRUE

\* act(states, add_noise): raw is what actor_local returns for the states,
\* xi the uniform draws the noise processes make
Act(add_noise, raw, xi) ==
  LET samples == [p \in 1..Len(noise) |->
                    OUNoise_sample(noise[p], mu, theta, sigma, xi[p])]
  IN
  /\ pc = "idle"
  /\ calls < MaxActs
  /\ calls' = calls + 1
  /\ noise' = IF add_noise THEN samples ELSE noise
  /\ lastAct' = [explore |-> add_noise, raw |-> raw, noise0 |-> noise,
                 xi |-> IF add_noise THEN xi ELSE <<>>,
                 samples |-> IF add_noise THEN samples ELSE <<>>,
                 action |-> Agent_act(variant, raw, samples, add_noise),
                 made |-> TRUE, reset |-> FALSE]
  /\ training' = Module_train(Module_eval(training))
  /\ pc' = "acted"
  /\ UNCHANGED <<cfgVars, netVars, learnVars, eps, memory, experiences, call, lastSample,
                 inserted>>

\* the caller takes the returned action
ActReturn ==
  /\ pc = "acted"
  /\ pc' = "idle"
  /\ lastAct' = NoAct
  /\ UNCHANGED <<cfgVars, training, netVars, learnVars, eps, memory, noise, experiences, call,
                 lastSample, inserted, calls>>

\* Agent.reset: every noise process goes back to its mean
Reset ==
  /\ pc = "idle"
  /\ calls < MaxActs
  /\ calls' = calls + 1
  /\ noise' = [p \in 1..Len(noise) |-> OUNoise_reset(mu, action_size)]
  /\ lastAct' = [NoAct EXCEPT !.reset = TRUE, !.noise0 = noise]
  /\ UNCHANGED <<cfgVars, training, netVars, learnVars, eps, memory, pc, experiences, call,
                 lastSample, inserted>>

ZeroXi == [p \in 1..Len(noise) |-> [c \in 1..action_size |-> 0]]

Next ==
  \/ \E t \in TimeSteps : StepAdd(t)
  \/ StepGate
  \/ StepSample
  \/ StepReturn
  \/ LearnCritic
  \/ LearnActor
  \/ LearnTargets
  \/ Sample

\* the step, learn and sample side of the agent
Spec == Init /\ [][Next]_vars

(* ---------------- the act and reset side of the agent ------------------ *)
\* LEARNING_RATE = 10, TIME_UPDATE = 10: the constructor's defaults
LEARNING_RATE == 10
TIME_UPDATE == 10

\* the mu, theta and sigma an agent is built with: the defaults, the defaults
\* around another mean, a process with no pull and no noise, and a process
\* with full pull around a negative mean
NoiseConfigs ==
  { [mu |-> MU, theta |-> THETA, sigma |-> SIGMA],
    [mu |-> ONE \div 2, theta |-> THETA, sigma |-> SIGMA],
    [mu |-> ONE \div 2, theta |-> 0, sigma |-> 0],
    [mu |-> -(ONE \div 2), theta |-> ONE, sigma |-> SIGMA] }

InitAct ==
  \E v \in Variants, n \in 1..MaxAgents, w \in InitialNets, o \in NoiseConfigs :
    /\ w.at = w.al
    /\ Agent_init(v, n, LEARNING_RATE, TIME_UPDATE, BATCH_SIZE, BUFFER_SIZE,
                  GAMMA, TAU, o.mu, o.theta, o.sigma, EPS_MAX, EPS_MIN, EPS_DECAY,
                  w.al, w.at, w.cl, w.ct)

NextAct ==
  \/ \E raw \in ActorOutputs(num_agents),
        xi \in XiDraws(Len(noise)) :
       Act(TRUE, raw, xi)
  \/ \E raw \in ActorOutputs(num_agents) : Act(FALSE, raw, ZeroXi)
  \/ ActReturn
  \/ Reset
  \/ \E t \in TimeSteps \ {0} : StepAdd(t)
  \/ StepGate

\* act and reset, between the recording steps of an environment loop that
\* stays off the learning cadence
SpecAct == InitAct /\ [][NextAct]_vars

(* ------------------ agents built with other arguments ------------------ *)
\* the defaults of the constructor
DefaultConfig ==
  [gamma |-> GAMMA, tau |-> TAU, bs |-> BATCH_SIZE, cap |-> BUFFER_SIZE,
   eps_max |-> EPS_MAX, eps_min |-> EPS_MIN, eps_decay |-> EPS_DECAY]

\* the argument lists an agent is built with: the defaults, and the defaults
\* with one argument replaced
AgentConfigs ==
  {DefaultConfig}
  \cup {[DefaultConfig EXCEPT !.gamma = g] : g \in {0, ONE, ONE + ONE \div 2}}
  \cup {[DefaultConfig EXCEPT !.tau = t] : t \in {0, ONE \div 2, 2 * ONE}}
  \cup {[DefaultConfig EXCEPT !.bs = 0]}
  \cup {[DefaultConfig EXCEPT !.cap = c] : c \in {0, -1}}
  \cup {[DefaultConfig EXCEPT !.eps_decay = d] : d \in {ONE \div 2, -(ONE \div 2)}}
  \cup {[DefaultConfig EXCEPT !.eps_max = EPS_MIN \div 2]}

InitCfg ==
  \E v \in Variants, c \in AgentConfigs, w \in InitialNets :
    Agent_init(v, MaxAgents, MaxUpdates, 1, c.bs, c.cap, c.gamma, c.tau,
               MU, THETA, SIGMA, c.eps_max, c.eps_min, c.eps_decay,
               w.al, w.at, w.cl, w.ct)

\* step, learn and sample on agents built with any of the argument lists
SpecCfg == InitCfg /\ [][Next]_vars

(* ----------------------- Agent.soft_update alone ----------------------- *)
\* values of the parameters soft_update is called on
SoftValues == {-ONE, 0, ONE \div 3, ONE}

\* parameter vectors soft_update is called on: one value on the odd
\* parameters, one on the even parameters
SoftVecs ==
  { [k \in 1..NumParams |-> IF k % 2 = 1 THEN v ELSE w] : v, w \in SoftValues }

\* the interpolation rates soft_update is called with, both ends included
SoftTaus == {0, TAU, ONE \div 2, ONE}

\* agent.soft_update(agent.actor_local, agent.actor_target, t) called directly
SoftUpdateCall(t) ==
  /\ pc = "idle"
  /\ calls < MaxCalls
  /\ calls' = calls + 1
  /\ actor_target' = soft_update(actor_local, actor_target, t)
  /\ lastSoft' = [made |-> TRUE, tau |-> t, local0 |-> actor_local,
                  target0 |-> actor_target]
  /\ UNCHANGED <<cfgVars, training, actor_local, critic_local, critic_target, grads,
                 trace, eps, memory, noise, pc, experiences, call, lastSample,
                 lastAct, inserted>>

\* agents whose actor networks hold any of the vectors (ddpg_agent.py copies
\* the local vector into the target when it builds the agent)
InitSoft ==
  \E v \in Variants, al \in SoftVecs, at \in SoftVecs :
    Agent_init(v, MaxAgents, LEARNING_RATE, TIME_UPDATE, BATCH_SIZE, BUFFER_SIZE,
               GAMMA, TAU, MU, THETA, SIGMA, EPS_MAX, EPS_MIN, EPS_DECAY,
               al, at, al, at)

NextSoft == \E t \in SoftTaus : SoftUpdateCall(t)

SpecSoft == InitSoft /\ [][NextSoft]_vars

(* ============================== claims ================================= *)

\* C1: the buffer never holds more than its capacity, and once more than
\* capacity transitions have been inserted it holds exactly capacity of them,
\* namely the last capacity transitions inserted (as a set).
C1_FifoBound ==
  /\ Len(memory) <= buffer_size
  /\ Len(inserted) > buffer_size =>
       /\ Len(memory) = buffer_size
       /\ Range(memory) = Range(LastN(inserted, buffer_size))

C1_Witness == Len(inserted) > buffer_size /\ Len(memory) = buffer_size

\* C2: a step call whose time_step modulo time_update is not 0 changes the
\* buffer and nothing else: the write leaves the parameters, eps and the
\* noise alone, and the gate then returns without a learning phase.
C2_CadenceGate ==
  [][ /\ (pc = "idle" /\ pc' = "gate") =>
           UNCHANGED <<netVars, eps, noise>>
      /\ (pc = "gate" /\ call.time_step % time_update # 0) =>
           /\ pc' = "idle"
           /\ call'.returned /\ call'.phases = 0 /\ call'.sizes = <<>>
           /\ UNCHANGED <<netVars, eps, noise, memory>> ]_vars

C2_Witness ==
  /\ pc = "idle" /\ call.returned
  /\ call.time_step % time_update # 0
  /\ Len(memory) > batch_size

\* C3: a step call that has returned ran learning_rate learning phases, each
\* on its own sample, when time_step modulo time_update is 0 and the buffer
\* holds more than batch_size transitions, and none otherwise.
C3_PhasesPerStep ==
  /\ call.phases <= learning_rate
  /\ call.returned =>
       /\ call.phases =
            (IF call.time_step % time_update = 0 /\ Len(memory) > batch_size
             THEN learning_rate ELSE 0)
       /\ Len(call.sizes) = call.phases

C3_Witness ==
  call.returned /\ learning_rate > 1 /\ call.phases = learning_rate

\* C4: every step call puts the transitions of all num_agents agents into
\* the buffer, whatever its time_step, and every sample the call draws sees
\* the buffer after that write.
C4_UnconditionalRecording ==
  call.xs # <<>> =>
    LET k == Min(num_agents, buffer_size) IN
    /\ Len(call.xs) = num_agents
    /\ Len(inserted) = call.ins0 + num_agents
    /\ LastN(memory, k) = LastN(call.xs, k)
    /\ Len(memory) = Min(buffer_size, call.ins0 + num_agents)
    /\ \A j \in DOMAIN call.sizes :
         call.sizes[j] = Min(buffer_size, call.ins0 + num_agents)

C4_Witness ==
  /\ call.returned /\ num_agents > 1
  /\ call.time_step % time_update # 0
  /\ call.ins0 > 0

\* C5: every sample drawn by step is drawn from a buffer holding strictly
\* more than batch_size transitions, so sample never raises inside step.
C5_SampleSafeInStep ==
  /\ ~call.raised
  /\ \A j \in DOMAIN call.sizes : call.sizes[j] > batch_size
  /\ (pc = "loop" /\ call.phases < learning_rate) => Len(memory) > batch_size

C5_Witness == Len(call.sizes) > 1

\* C6: a direct sample call on a buffer holding fewer than batch_size
\* transitions raises, returns no batch, and leaves the buffer as it was.
C6_SampleRejected ==
  [][ (pc = "idle" /\ pc' = "idle" /\ calls' = calls + 1
         /\ batch_size > Len(memory)) =>
        /\ lastSample'.raised
        /\ lastSample'.idx = <<>>
        /\ lastSample'.batch = NoBatch.batch
        /\ memory' = memory ]_vars

C6_Witness == lastSample.raised /\ Len(memory) > 0

\* what C7 asks of the outcome r of a sample call that did not raise
AlignedDistinctBatch(r) ==
  /\ Len(r.idx) = batch_size
  /\ \A i, j \in DOMAIN r.idx : i # j => r.idx[i] # r.idx[j]
  /\ \A j \in DOMAIN r.idx : r.idx[j] \in DOMAIN memory
  /\ \A f \in {"states", "actions", "rewards", "next_states", "dones"} :
       Len(r.batch[f]) = batch_size
  /\ \A j \in DOMAIN r.idx :
       LET e == memory[r.idx[j]] IN
       /\ e \in Range(inserted)
       /\ r.batch.states[j] = e.state
       /\ r.batch.actions[j] = e.action
       /\ r.batch.rewards[j] = e.reward
       /\ r.batch.next_states[j] = e.next_state
       /\ r.batch.dones[j] = (IF e.done THEN 1 ELSE 0)

\* C7: a sample call on a buffer holding at least batch_size transitions
\* returns batch_size transitions from batch_size distinct positions of the
\* buffer, as five sequences aligned index by index.
C7_SampleWithoutReplacement ==
  /\ (lastSample # NoBatch /\ lastSample.size >= batch_size) =>
       ~lastSample.raised /\ AlignedDistinctBatch(lastSample)
  /\ (experiences # NoBatch /\ experiences.size >= batch_size) =>
       ~experiences.raised /\ AlignedDistinctBatch(experiences)

C7_Witness ==
  /\ lastSample # NoBatch /\ ~lastSample.raised
  /\ batch_size > 1
  /\ Len(memory) = buffer_size /\ Len(inserted) > buffer_size

\* the noise process whose sample agent a is given
ProcessOf(a) == IF variant = ORIG THEN a ELSE 1

\* C8: act with exploration returns, for every agent, the clipped sum of the
\* actor output and one sample of the agent's noise process, and every
\* noise process advances by exactly one step.
C8_OneNoiseSamplePerAgent ==
  (lastAct.made /\ lastAct.explore) =>
    /\ \A a \in DOMAIN lastAct.action : \A c \in DOMAIN lastAct.action[a] :
         lastAct.action[a][c] =
           np_clip(lastAct.raw[a][c] + lastAct.samples[ProcessOf(a)][c], -ONE, ONE)
    /\ \A p \in DOMAIN noise :
         /\ noise[p] = OUNoise_sample(lastAct.noise0[p], mu, theta, sigma, lastAct.xi[p])
         /\ lastAct.samples[p] = noise[p]

\* C9: every coordinate of the action act returns lies in [-1, 1], with and
\* without exploration.
C9_ClampInvariant ==
  lastAct.made =>
    \A a \in DOMAIN lastAct.action : \A c \in DOMAIN lastAct.action[a] :
      -ONE <= lastAct.action[a][c] /\ lastAct.action[a][c] <= ONE

C9_Witness ==
  /\ lastAct.made /\ lastAct.explore
  /\ \E a \in DOMAIN lastAct.action : \E c \in DOMAIN lastAct.action[a] :
       /\ lastAct.raw[a][c] + lastAct.samples[ProcessOf(a)][c] > ONE
       /\ lastAct.action[a][c] = ONE

\* C10: right after construction the actor target equals the actor local
\* network and the critic target equals the critic local network, parameter
\* by parameter.
C10_HardTargetInit ==
  (calls = 0 /\ pc = "idle") =>
    /\ \A k \in DOMAIN actor_local : actor_target[k] = actor_local[k]
    /\ \A k \in DOMAIN critic_local : critic_target[k] = critic_local[k]

\* C11: the target networks change only in the synchronisation that ends a
\* learning phase, where each becomes the soft update of itself from its own
\* local network; the critic and the actor gradient steps change local
\* parameters only and leave both targets as they were.
C11_TargetsOnlyBySync ==
  [][ /\ (actor_target' # actor_target \/ critic_target' # critic_target)
         => /\ pc = "learn_targets"
            /\ actor_target' = soft_update(actor_local, actor_target, TAU)
            /\ critic_target' = soft_update(critic_local, critic_target, TAU)
      /\ pc \in {"learn_critic", "learn_actor"}
         => /\ actor_target' = actor_target
            /\ critic_target' = critic_target ]_vars

\* a learning phase has ended with both gradient steps having moved their
\* local network and the synchronisation having moved both targets to a
\* blend of two initial values
C11_Witness ==
  /\ call.phases >= 1
  /\ \E k \in 1..NumParams :
       /\ actor_target[k] \notin ParamValues
       /\ critic_target[k] \notin ParamValues
       /\ actor_local[k] # actor_target[k]
       /\ critic_local[k] # critic_target[k]

\* C12: a soft update with rate tau sets every target parameter to
\* tau*local + (1 - tau)*target and leaves the local parameters unchanged;
\* with tau = 1 the target becomes equal to the local network, with tau = 0
\* the target is unchanged.
C12_SoftUpdateBlend ==
  lastSoft.made =>
    /\ \A k \in 1..NumParams :
         actor_target[k] = (lastSoft.tau * lastSoft.local0[k]
                            + (ONE - lastSoft.tau) * lastSoft.target0[k]) \div ONE
    /\ actor_local = lastSoft.local0
    /\ lastSoft.tau = ONE => actor_target = actor_local
    /\ lastSoft.tau = 0 => actor_target = lastSoft.target0

\* a soft update with tau = 1 on a target that differed from the local network
C12_Witness ==
  /\ lastSoft.made
  /\ lastSoft.tau = ONE
  /\ lastSoft.target0 # lastSoft.local0
  /\ actor_target = actor_local

\* C13: in the critic update, a transition whose done flag is 1 gets the TD
\* target y = reward exactly, whatever the discount factor and whatever the
\* target critic returned; a transition whose done flag is 0 gets
\* y = reward + gamma * target_q.
C13_TerminalMasksBootstrap ==
  pc = "learn_actor" =>
    /\ Len(trace.Q_targets) = Len(experiences.idx)
    /\ \A j \in 1..Len(trace.Q_targets) :
         LET reward == experiences.batch.rewards[j]
             done   == experiences.batch.dones[j]
             q_next == trace.Q_targets_next[j]
         IN /\ done = 1 => trace.Q_targets[j] = reward
            /\ done = 0 => trace.Q_targets[j] = reward + (gamma * q_next) \div ONE

\* a batch holding a terminal and a non-terminal transition, with a discount
\* factor and a target-critic value that are not zero
C13_Witness ==
  /\ pc = "learn_actor"
  /\ gamma # 0
  /\ \E i, j \in 1..Len(trace.Q_targets) :
       /\ experiences.batch.dones[i] = 1
       /\ experiences.batch.dones[j] = 0
       /\ trace.Q_targets_next[i] # 0
       /\ trace.Q_targets[j] # experiences.batch.rewards[j]

\* C14: the actor gradient step changes the actor-local parameters only
\* (critic-local and both targets are the same before and after it), and the
\* gradient every critic step applies comes from the critic loss alone:
\* what the actor loss left in the critic-local gradients is cleared before
\* each critic backward pass.
C14_ActorStepSparesCritic ==
  [][ /\ pc = "learn_actor"
         => /\ critic_local' = critic_local
            /\ critic_target' = critic_target
            /\ actor_target' = actor_target
      /\ pc = "learn_critic"
         => /\ trace'.critic_step = {"critic_loss"}
            /\ grads'.actor_local = grads.actor_local ]_vars

\* the critic step of a later learning phase: the actor loss of the phase
\* before had reached the critic-local gradients, the step used the critic
\* loss alone
C14_Witness ==
  /\ pc = "learn_actor"
  /\ call.phases >= 1
  /\ "actor_loss" \in grads.actor_local
  /\ trace.critic_step = {"critic_loss"}
  /\ grads.critic_local = {"critic_loss"}

\* C15: in every agent that can be built, the exploration rate eps never
\* increases from one learning phase to the next and is never below eps_min.
C15_MonotoneEpsDecay ==
  /\ [](eps >= eps_min)
  /\ [][eps' <= eps]_vars

\* C16: building an agent with a discount factor outside (0,1], a soft-update
\* rate outside (0,1], or a batch size or buffer capacity that is not
\* positive fails at construction and leaves no usable agent.
C16_InvalidConfigRejected ==
  ( \/ gamma <= 0 \/ gamma > ONE
    \/ tau <= 0 \/ tau > ONE
    \/ batch_size <= 0
    \/ buffer_size <= 0 )
  => pc = "rejected"

\* C17: after reset() every noise process of the agent is at the configured
\* mean exactly, whatever was sampled before; and with theta = 0 and
\* sigma = 0 the state stays at the mean through any number of sample()
\* calls.
C17_NoiseResetAndFixedPoint ==
  LET mean == [c \in 1..action_size |-> mu]
  IN /\ lastAct.reset => \A p \in 1..Len(noise) : noise[p] = mean
     /\ (theta = 0 /\ sigma = 0) => \A p \in 1..Len(noise) : noise[p] = mean

\* a reset of processes that sampling had moved away from a mean that is not 0
C17_Witness ==
  /\ lastAct.reset
  /\ mu # 0
  /\ \A p \in 1..Len(noise) :
       /\ lastAct.noise0[p] # noise[p]
       /\ \A c \in 1..action_size : noise[p][c] = mu

\* C18: the two recording call shapes agree. Whichever file the agent is
\* built from, after every step the buffer is the last buffer_size
\* transitions of the input sequence in input order (agent 0 first), and it
\* is what either shape, one add call for all agents or one add call per
\* agent, makes of the buffer before the step and the step's inputs; the
\* same holds when the write evicts.
C18_RecordingShapesAgree ==
  /\ memory = LastN(inserted, buffer_size)
  /\ call.xs # <<>> =>
       LET pre         == LastN(SubSeq(inserted, 1, call.ins0), buffer_size)
           states      == [i \in 1..num_agents |-> call.xs[i].state]
           actions     == [i \in 1..num_agents |-> call.xs[i].action]
           rewards     == [i \in 1..num_agents |-> call.xs[i].reward]
           next_states == [i \in 1..num_agents |-> call.xs[i].next_state]
           dones       == [i \in 1..num_agents |-> call.xs[i].done]
       IN /\ memory = ReplayBuffer_add_all(pre, states, actions, rewards,
                                           next_states, dones, num_agents, buffer_size)
          /\ memory = step_add_each(pre, states, actions, rewards,
                                    next_states, dones, num_agents, buffer_size)

\* a step of two agents whose write evicted transitions of an earlier step
C18_Witness ==
  /\ call.xs # <<>>
  /\ num_agents > 1
  /\ call.ins0 > 0
  /\ Len(inserted) > buffer_size
  /\ Len(memory) = buffer_size

\* C19: the synchronisation that ends a learning phase blends with the rate
\* the agent was built with: every critic-target and actor-target parameter
\* becomes tau * (local value after this phase's gradient step)
\* + (1 - tau) * (target value before the phase), tau being Agent.tau.
C19_LearnBlendsWithConfiguredTau ==
  [][ pc = "learn_targets" =>
        \A k \in 1..NumParams :
          /\ critic_target'[k] =
               (tau * critic_local[k] + (ONE - tau) * critic_target[k]) \div ONE
          /\ actor_target'[k] =
               (tau * actor_local[k] + (ONE - tau) * actor_target[k]) \div ONE ]_vars

\* C20: sampling is read-only on the buffer. A sample call, made by step or
\* directly, leaves the buffer as it was (nothing removed, reordered or
\* added), and the buffer stays the same through all the learning phases of
\* one step, so every batch of the step is drawn from the same contents; a
\* position drawn in one batch can be drawn again in a later batch (the
\* witness).
C20_SampleReadOnly ==
  [][ /\ ( \/ pc \in {"loop", "learn_critic", "learn_actor", "learn_targets"}
           \/ (pc = "idle" /\ pc' = "idle") )
         => memory' = memory
      /\ \A j \in DOMAIN call'.sizes : call'.sizes[j] = Len(memory') ]_vars

\* two sample calls in a row on the same buffer, the second batch holding a
\* position the first held, and the buffer still what the steps wrote
C20_Witness ==
  /\ lastSample.again
  /\ ~lastSample.raised
  /\ lastSample.size = Len(memory)
  /\ memory = LastN(inserted, buffer_size)
  /\ memory # <<>>

\* C21: one-sided noise. With 0 <= theta <= 1 and sigma >= 0, from
\* construction or reset on, every coordinate of every noise state is at
\* least the mean, whatever number of samples was drawn; and an exploring
\* act never returns an action below the clamped actor output + mu.
C21_OneSidedNoise ==
  (0 <= theta /\ theta <= ONE /\ sigma >= 0) =>
    /\ \A p \in 1..Len(noise) : \A c \in 1..action_size : noise[p][c] >= mu
    /\ (lastAct.made /\ lastAct.explore) =>
         \A a \in 1..num_agents : \A c \in 1..action_size :
           lastAct.action[a][c] >= np_clip(lastAct.raw[a][c] + mu, -ONE, ONE)

\* C22: act has no side effect apart from the noise. An act call leaves the
\* replay buffer, the four parameter vectors and eps as they were and
\* returns with actor_local in training mode; with add_noise false it also
\* leaves every noise state as it was, so such calls do not disturb the
\* noise sequence of the exploring calls around them.
C22_ActFrame ==
  [][ (pc = "idle" /\ pc' = "acted") =>
        /\ UNCHANGED <<memory, inserted, netVars, eps>>
        /\ training'
        /\ ~lastAct'.explore => noise' = noise ]_vars

\* an act without noise has returned, after a step had filled the buffer and
\* an exploring act had moved the noise away from the mean: the noise is
\* where the exploring act left it
C22_Witness ==
  /\ pc = "acted"
  /\ lastAct.made /\ ~lastAct.explore
  /\ training
  /\ lastAct.noise0 = noise
  /\ \E p \in 1..Len(noise) : \E c \in 1..action_size : noise[p][c] # mu
  /\ memory # <<>>
====
